---------------------------- MODULE Spec2Model ----------------------------
(***************************************************************************)
(* Model of the three 1Password administration scripts:                    *)
(*   1password_export_users.py         ("lister")                          *)
(*   1password_export_users_prompt.py  ("prompt")                          *)
(*   1password_license_monitor.py      ("monitor")                         *)
(* One behaviour is one run of one script.  The external collaborators     *)
(* (the `op` command, the file system, the webhook, the terminal prompt)   *)
(* are nondeterministic inputs.  Text is a sequence of characters, so that *)
(* str.strip() is computed rather than assumed.                            *)
(***************************************************************************)
EXTENDS Integers, Sequences, FiniteSets

VARIABLES prog,            \* which script runs
          pc,              \* position in that script's main()
          env,             \* os.environ: a function on the names that are set
          tokenFile,       \* contents of the token file on disk
          fs,              \* CSV files on disk: path -> rows, on the paths that exist
          users,           \* main()'s local `users`
          opCalls,         \* number of subprocess.run invocations of `op`
          opOutcome,       \* how the last invocation of `op` ended ("none" before it)
          used_licenses,   \* main()'s local `used_licenses` / the notifier's argument
          total_licenses,  \* the notifier's argument
          message,         \* the message the notifier built
          posts,           \* the requests.post calls made, in order
          wrotePath,       \* paths open()ed for writing by export_to_csv, in order
          token_path,      \* get_token_from_file's local: <<>> until read, then <<path>>
          start,           \* the environment and the disk as the run found them
          printed          \* what the run printed, in order

vars == <<prog, pc, env, tokenFile, fs, users, opCalls, opOutcome, used_licenses,
          total_licenses, message, posts, wrotePath, token_path, start, printed>>

-----------------------------------------------------------------------------
(* Bounds of the model *)

MaxUsers == 2          \* longest list `op user list` returns
MaxInt == 5            \* notifier arguments range over -MaxInt..MaxInt

-----------------------------------------------------------------------------
(* Program constants *)

TOTAL_LICENSES == 3000
OUTPUT_CSV == "1password_team_users.csv"
TOKEN_VAR == "OP_SERVICE_ACCOUNT_TOKEN"
OUTPUT_VAR == "OUTPUT_CSV"
WEBHOOK_VAR == "SLACK_WEBHOOK_URL"
headers == <<"ID", "Email", "Name", "State">>
active_states == {"ACTIVE", "RECOVERY_STARTED"}

\* Python's None (also what a JSON null parses to)
None == "<None>"
\* used_licenses before main() assigns it
Unassigned == 0 - 1
NoMessage == [variant |-> "none", used |-> 0, total |-> 0, diff |-> 0]

-----------------------------------------------------------------------------
(* Text *)

Whitespace == {" ", "\n"}

RECURSIVE LStrip(_)
LStrip(s) == IF s # <<>> /\ Head(s) \in Whitespace THEN LStrip(Tail(s)) ELSE s

RECURSIVE RStrip(_)
RStrip(s) ==
    IF s # <<>> /\ s[Len(s)] \in Whitespace
    THEN RStrip(SubSeq(s, 1, Len(s) - 1))
    ELSE s

\* str.strip()
Strip(s) == RStrip(LStrip(s))

-----------------------------------------------------------------------------
(* The environment of a run *)

\* What the person at the prompt may type
PathInputs == { <<"t">>, <<" ", "t", "\n">>, <<"d">>, <<"x">>, <<>> }

\* os.path.isfile: "t" is the one regular file, "d" is a directory
IsFile(path) == path = <<"t">>

TokenFileContents == { <<>>, <<"\n">>, <<"s">>, <<"s", "\n">> }

\* os.getenv(name)
Getenv(e, name) == IF name \in DOMAIN e THEN e[name] ELSE None

\* `not os.getenv(name)` for a text-valued variable: unset, or set to ""
NotGetenv(e, name) == name \notin DOMAIN e \/ e[name] = <<>>

\* os.environ[name] = value
Setenv(e, name, value) ==
    [k \in DOMAIN e \cup {name} |-> IF k = name THEN value ELSE e[k]]

Restrict(f, D) == [k \in D |-> f[k]]

\* User records as `op user list --format json` yields them: any field may be
\* missing, and the state may be null
FieldNames == {"id", "email", "name", "state"}
FullRecords ==
    [id : {"1"}, email : {"a@x.com"}, name : {"A"},
     state : {"ACTIVE", "RECOVERY_STARTED", "active", "SUSPENDED", None}]
FieldSets ==
    {FieldNames, FieldNames \ {"id"}, FieldNames \ {"email"},
     FieldNames \ {"name"}, FieldNames \ {"state"}, {}}
UserRecords == { Restrict(r, D) : r \in FullRecords, D \in FieldSets }
UserLists == UNION { [1..n -> UserRecords] : n \in 0..MaxUsers }

\* dict.get(key, default)
Get(user, key, default) == IF key \in DOMAIN user THEN user[key] ELSE default

-----------------------------------------------------------------------------
(* Pure functions *)

\* Mutant: the state is compared without regard to case
RECURSIVE count_active_licenses_anycase(_)
count_active_licenses_anycase(us) ==
    IF us = <<>> THEN 0
    ELSE (IF Get(Head(us), "state", None) \in active_states \cup {"active"}
          THEN 1 ELSE 0)
         + count_active_licenses_anycase(Tail(us))

\* 1password_license_monitor.py count_active_licenses:
\*   sum(1 for user in users if user.get("state") in active_states)
RECURSIVE count_active_licenses(_)
count_active_licenses(us) ==
    IF us = <<>> THEN 0
    ELSE (IF Get(Head(us), "state", None) \in active_states THEN 1 ELSE 0)
         + count_active_licenses(Tail(us))

\* Mutant: equality counts as an overage
build_message_ge(used, total) ==
    IF used >= total
    THEN [variant |-> "overage", used |-> used, total |-> total,
          diff |-> used - total]
    ELSE [variant |-> "within_limit", used |-> used, total |-> total,
          diff |-> total - used]

\* The message send_slack_notification builds: which template, and the three
\* numbers it interpolates
build_message(used, total) ==
    IF used > total
    THEN [variant |-> "overage", used |-> used, total |-> total,
          diff |-> used - total]
    ELSE [variant |-> "within_limit", used |-> used, total |-> total,
          diff |-> total - used]

\* csv.DictWriter renders None as the empty field
CsvField(v) == IF v = None THEN "" ELSE v

\* The row export_to_csv hands to writer.writerow for one user
csv_row(user) ==
    << CsvField(Get(user, "id", "")), CsvField(Get(user, "email", "")),
       CsvField(Get(user, "name", "")), CsvField(Get(user, "state", "")) >>

\* Mutant: the rows come out last record first
csv_rows_reversed(us) ==
    <<headers>> \o [i \in 1..Len(us) |-> csv_row(us[Len(us) + 1 - i])]

\* Everything export_to_csv writes for a list: writeheader, then the loop
csv_rows(us) == <<headers>> \o [i \in 1..Len(us) |-> csv_row(us[i])]

-----------------------------------------------------------------------------
(* The outside world *)

\* What running `op user list --format json` can come to: the command is not
\* on the PATH, it exits non-zero, its output is not JSON, or it is a list
OpFailures == {"not_found", "nonzero_exit", "bad_json"}

\* The module constant SLACK_WEBHOOK_URL = os.getenv("SLACK_WEBHOOK_URL")
SLACK_WEBHOOK_URL == Getenv(env, WEBHOOK_VAR)

\* What requests.post + raise_for_status can come to
PostOutcomes ==
    IF SLACK_WEBHOOK_URL = None
    THEN {"invalid_url"}
    ELSE {"2xx", "non_2xx", "transport_error"}
PostFailures == {"invalid_url", "non_2xx", "transport_error"}

\* open(path, "w") followed by writes that all succeed
WriteFile(files, path, rows) ==
    [k \in DOMAIN files \cup {path} |-> IF k = path THEN rows ELSE files[k]]

OldRows == << <<"old">> >>
CustomPath == "custom.csv"

Say(line) == printed' = Append(printed, line)

-----------------------------------------------------------------------------
(* Initial states *)

EnvOf(token, out, hook) ==
    [k \in {n \in {TOKEN_VAR} : token # <<None>>}
         \cup {n \in {OUTPUT_VAR} : out # None}
         \cup {n \in {WEBHOOK_VAR} : hook # None} |->
        IF k = TOKEN_VAR THEN token ELSE IF k = OUTPUT_VAR THEN out ELSE hook]

InitCommon ==
    /\ users = <<>>
    /\ opCalls = 0
    /\ opOutcome = "none"
    /\ used_licenses = Unassigned
    /\ total_licenses = Unassigned
    /\ message = NoMessage
    /\ posts = <<>>
    /\ wrotePath = <<>>
    /\ token_path = <<>>
    /\ printed = <<>>
    /\ start = [env |-> env, fs |-> fs]

InitLister ==
    /\ prog = "lister"
    /\ pc = "fetch"
    /\ \E token \in {<<None>>, <<>>, <<"s">>}, out \in {None, CustomPath} :
          env = EnvOf(token, out, None)
    /\ tokenFile = <<>>
    /\ fs \in {<<>>, WriteFile(<<>>, OUTPUT_CSV, OldRows)}
    /\ InitCommon

InitPrompt ==
    /\ prog = "prompt"
    /\ pc = "token"
    /\ \E token \in {<<None>>, <<"o">>}, out \in {None, CustomPath} :
          env = EnvOf(token, out, None)
    /\ tokenFile \in TokenFileContents
    /\ fs \in {<<>>, WriteFile(<<>>, OUTPUT_CSV, OldRows)}
    /\ InitCommon

InitMonitor ==
    /\ prog = "monitor"
    /\ pc = "fetch"
    /\ \E token \in {<<None>>, <<>>, <<"s">>}, hook \in {None, "https://hooks"} :
          env = EnvOf(token, None, hook)
    /\ tokenFile = <<>>
    /\ fs = <<>>
    /\ InitCommon

Init == InitLister \/ InitPrompt \/ InitMonitor

-----------------------------------------------------------------------------
(* 1password_export_users_prompt.py *)

\* Mutant: a missing token file is reported but the run goes on
get_token_from_file_goes_on ==
    /\ prog = "prompt" /\ pc = "token"
    /\ \E typed \in PathInputs :
         /\ token_path' = <<Strip(typed)>>
         /\ IF ~IsFile(Strip(typed))
            THEN /\ Say("An error occurred: Token file not found")
                 /\ pc' = "fetch"
                 /\ env' = env
            ELSE /\ env' = Setenv(env, TOKEN_VAR, Strip(tokenFile))
                 /\ Say("Token has been set from the provided file.")
                 /\ pc' = "fetch"
    /\ UNCHANGED <<prog, tokenFile, fs, users, opCalls, opOutcome, used_licenses,
                   total_licenses, message, posts, wrotePath, start>>

\* get_token_from_file, with main()'s handler for what it raises
get_token_from_file ==
    /\ prog = "prompt" /\ pc = "token"
    /\ \E typed \in PathInputs :
         /\ token_path' = <<Strip(typed)>>
         /\ IF ~IsFile(Strip(typed))
            THEN \* FileNotFoundError, caught in main()
                 /\ Say("An error occurred: Token file not found")
                 /\ pc' = "done"
                 /\ env' = env
            ELSE /\ env' = Setenv(env, TOKEN_VAR, Strip(tokenFile))
                 /\ Say("Token has been set from the provided file.")
                 /\ pc' = "fetch"
    /\ UNCHANGED <<prog, tokenFile, fs, users, opCalls, opOutcome, used_licenses,
                   total_licenses, message, posts, wrotePath, start>>

-----------------------------------------------------------------------------
(* 1password_export_users.py and 1password_export_users_prompt.py *)

\* fetch_users of the two exporters (the same code in both)
fetch_users ==
    /\ prog \in {"lister", "prompt"} /\ pc = "fetch"
    /\ IF NotGetenv(env, TOKEN_VAR)
       THEN \* ValueError, caught by `except Exception`
            /\ Say("Error: OP_SERVICE_ACCOUNT_TOKEN environment variable is not set.")
            /\ users' = <<>>
            /\ UNCHANGED <<opCalls, opOutcome>>
       ELSE /\ opCalls' = opCalls + 1
            /\ opOutcome' \in OpFailures \cup {"ok"}
            /\ CASE opOutcome' = "nonzero_exit" ->
                     \* CalledProcessError
                     /\ printed' = printed \o <<"Fetching list of users from 1Password...",
                                                "Error running 'op' command">>
                     /\ users' = <<>>
                 [] opOutcome' \in {"not_found", "bad_json"} ->
                     \* FileNotFoundError / JSONDecodeError: `except Exception`
                     /\ printed' = printed \o <<"Fetching list of users from 1Password...",
                                                "Error">>
                     /\ users' = <<>>
                 [] OTHER ->
                     /\ Say("Fetching list of users from 1Password...")
                     /\ users' \in UserLists
    /\ pc' = "export"
    /\ UNCHANGED <<prog, env, tokenFile, fs, used_licenses, total_licenses,
                   message, posts, wrotePath, token_path, start>>

\* Mutant: no early return on the empty list, so a header-only file is written
export_to_csv_always_writes ==
    /\ prog \in {"lister", "prompt"} /\ pc = "export"
    /\ fs' = WriteFile(fs, OUTPUT_CSV, csv_rows(users))
    /\ wrotePath' = Append(wrotePath, OUTPUT_CSV)
    /\ printed' = printed \o <<"Exporting", "Successfully exported users">>
    /\ pc' = "done"
    /\ UNCHANGED <<prog, env, tokenFile, users, opCalls, opOutcome, used_licenses,
                   total_licenses, message, posts, token_path, start>>

\* export_to_csv of the two exporters (the same code in both)
export_to_csv ==
    /\ prog \in {"lister", "prompt"} /\ pc = "export"
    /\ IF users = <<>>
       THEN /\ Say("No users found to export.")
            /\ UNCHANGED <<fs, wrotePath>>
       ELSE \/ \* open() raises: nothing is created or truncated
               /\ printed' = printed \o <<"Exporting", "Error writing to CSV">>
               /\ UNCHANGED <<fs, wrotePath>>
            \/ \* a write raises after k rows (the header is row 1)
               /\ \E k \in 0..Len(users) :
                     fs' = WriteFile(fs, OUTPUT_CSV, SubSeq(csv_rows(users), 1, k))
               /\ wrotePath' = Append(wrotePath, OUTPUT_CSV)
               /\ printed' = printed \o <<"Exporting", "Error writing to CSV">>
            \/ /\ fs' = WriteFile(fs, OUTPUT_CSV, csv_rows(users))
               /\ wrotePath' = Append(wrotePath, OUTPUT_CSV)
               /\ printed' = printed \o <<"Exporting", "Successfully exported users">>
    /\ pc' = "done"
    /\ UNCHANGED <<prog, env, tokenFile, users, opCalls, opOutcome, used_licenses,
                   total_licenses, message, posts, token_path, start>>

-----------------------------------------------------------------------------
(* 1password_license_monitor.py *)

\* fetch_users of the monitor: no credential check, and only
\* CalledProcessError is caught; anything else leaves main() as a traceback
fetch_users_monitor ==
    /\ prog = "monitor" /\ pc = "fetch"
    /\ opCalls' = opCalls + 1
    /\ opOutcome' \in OpFailures \cup {"ok"}
    /\ CASE opOutcome' = "nonzero_exit" ->
             /\ printed' = printed \o <<"Fetching list of users from 1Password...",
                                        "Error running 'op' command">>
             /\ users' = <<>>
             /\ pc' = "check"
         [] opOutcome' \in {"not_found", "bad_json"} ->
             /\ printed' = printed \o <<"Fetching list of users from 1Password...",
                                        "Traceback (most recent call last)">>
             /\ users' = users
             /\ pc' = "crashed"
         [] OTHER ->
             /\ Say("Fetching list of users from 1Password...")
             /\ users' \in UserLists
             /\ pc' = "check"
    /\ UNCHANGED <<prog, env, tokenFile, fs, used_licenses, total_licenses,
                   message, posts, wrotePath, token_path, start>>

\* Mutant: no early return when nothing was fetched
main_monitor_no_return ==
    /\ prog = "monitor" /\ pc = "check"
    /\ used_licenses' = count_active_licenses(users)
    /\ total_licenses' = TOTAL_LICENSES
    /\ Say("Used Licenses")
    /\ pc' = "notify"
    /\ UNCHANGED <<prog, env, tokenFile, fs, users, opCalls, opOutcome, message,
                   posts, wrotePath, token_path, start>>

\* main() between fetch_users and send_slack_notification
main_monitor ==
    /\ prog = "monitor" /\ pc = "check"
    /\ IF users = <<>>
       THEN /\ Say("No users fetched. Exiting.")
            /\ pc' = "done"
            /\ UNCHANGED <<used_licenses, total_licenses>>
       ELSE /\ used_licenses' = count_active_licenses(users)
            /\ total_licenses' = TOTAL_LICENSES
            /\ Say("Used Licenses")
            /\ pc' = "notify"
    /\ UNCHANGED <<prog, env, tokenFile, fs, users, opCalls, opOutcome, message,
                   posts, wrotePath, token_path, start>>

\* Mutant: a failed delivery is tried once more
send_slack_notification_retry ==
    /\ prog = "monitor" /\ pc = "notify"
    /\ message' = build_message(used_licenses, total_licenses)
    /\ \E outcome \in PostOutcomes :
         LET post == [url |-> SLACK_WEBHOOK_URL, json |-> [text |-> message'],
                      outcome |-> outcome]
         IN /\ posts' = IF outcome = "2xx" THEN Append(posts, post)
                                          ELSE posts \o <<post, post>>
            /\ IF outcome = "2xx"
               THEN Say("Slack notification sent successfully.")
               ELSE Say("Error sending Slack notification")
    /\ pc' = "done"
    /\ UNCHANGED <<prog, env, tokenFile, fs, users, opCalls, opOutcome,
                   used_licenses, total_licenses, wrotePath, token_path, start>>

\* send_slack_notification(used_licenses, total_licenses)
send_slack_notification ==
    /\ prog = "monitor" /\ pc = "notify"
    /\ message' = build_message(used_licenses, total_licenses)
    /\ \E outcome \in PostOutcomes :
         /\ posts' = Append(posts, [url |-> SLACK_WEBHOOK_URL,
                                    json |-> [text |-> message'],
                                    outcome |-> outcome])
         /\ IF outcome = "2xx"
            THEN Say("Slack notification sent successfully.")
            ELSE Say("Error sending Slack notification")
    /\ pc' = "done"
    /\ UNCHANGED <<prog, env, tokenFile, fs, users, opCalls, opOutcome,
                   used_licenses, total_licenses, wrotePath, token_path, start>>

-----------------------------------------------------------------------------

Next ==
    \/ get_token_from_file
    \/ fetch_users
    \/ export_to_csv
    \/ fetch_users_monitor
    \/ main_monitor
    \/ send_slack_notification

Spec == Init /\ [][Next]_vars

-----------------------------------------------------------------------------
(* count_active_licenses on its own: any list, the empty one included *)

InitCount ==
    /\ prog = "monitor"
    /\ pc = "count"
    /\ env = <<>>
    /\ tokenFile = <<>>
    /\ fs = <<>>
    /\ users \in UserLists
    /\ opCalls = 0
    /\ opOutcome = "none"
    /\ used_licenses = Unassigned
    /\ total_licenses = Unassigned
    /\ message = NoMessage
    /\ posts = <<>>
    /\ wrotePath = <<>>
    /\ token_path = <<>>
    /\ printed = <<>>
    /\ start = [env |-> env, fs |-> fs]

call_count_active_licenses ==
    /\ pc = "count"
    /\ used_licenses' = count_active_licenses(users)
    /\ pc' = "counted"
    /\ UNCHANGED <<prog, env, tokenFile, fs, users, opCalls, opOutcome,
                   total_licenses, message, posts, wrotePath, token_path, start,
                   printed>>

NextCount == call_count_active_licenses

SpecCount == InitCount /\ [][NextCount]_vars

-----------------------------------------------------------------------------
(* send_slack_notification on its own: any two integers *)

IntRange == (0 - MaxInt)..MaxInt

InitNotify ==
    /\ prog = "monitor"
    /\ pc = "notify"
    /\ \E hook \in {None, "https://hooks"} : env = EnvOf(<<"s">>, None, hook)
    /\ tokenFile = <<>>
    /\ fs = <<>>
    /\ users = <<>>
    /\ opCalls = 0
    /\ opOutcome = "none"
    /\ used_licenses \in IntRange
    /\ total_licenses \in IntRange
    /\ message = NoMessage
    /\ posts = <<>>
    /\ wrotePath = <<>>
    /\ token_path = <<>>
    /\ printed = <<>>
    /\ start = [env |-> env, fs |-> fs]

NextNotify == send_slack_notification

SpecNotify == InitNotify /\ [][NextNotify]_vars

-----------------------------------------------------------------------------
(* Properties *)

Last(s) == s[Len(s)]
Exporter == prog \in {"lister", "prompt"}
\* The interactive run that ended at the prompt, on a path that is no file
Aborted == prog = "prompt" /\ token_path # <<>> /\ ~IsFile(token_path[1])
\* fetch_users has been called and has ended, one way or the other
FetchEnded == pc \in {"export", "check", "notify", "crashed"} \/ (pc = "done" /\ ~Aborted)
\* export_to_csv has been called and has returned
ExportEnded == Exporter /\ pc = "done" /\ ~Aborted

\* C1: in every script, when OP_SERVICE_ACCOUNT_TOKEN is not set as fetch_users
\* runs, `op` is never invoked in that run and fetch_users yields the empty list.
C1_NoTokenNoInvocation ==
    (FetchEnded /\ TOKEN_VAR \notin DOMAIN env) => (opCalls = 0 /\ users = <<>>)

\* C2: in every script, when `op` exits non-zero or prints what is not JSON,
\* fetch_users returns the empty list and the run goes on to its normal end
\* instead of ending on an unhandled exception.
C2_FetchFailureSwallowed ==
    opOutcome \in {"nonzero_exit", "bad_json"} => (users = <<>> /\ pc # "crashed")

\* C3: count_active_licenses returns the number of records that have a state
\* field equal, to the letter, to ACTIVE or RECOVERY_STARTED; 0 for the empty list.
C3_CountsExactlyActiveStates ==
    pc = "counted" =>
        /\ used_licenses =
              Cardinality({ i \in 1..Len(users) :
                              /\ "state" \in DOMAIN users[i]
                              /\ \/ users[i]["state"] = "ACTIVE"
                                 \/ users[i]["state"] = "RECOVERY_STARTED" })
        /\ (users = <<>> => used_licenses = 0)

C3_Witness ==
    /\ pc = "counted"
    /\ Len(users) = 2
    /\ "state" \in DOMAIN users[1] /\ users[1]["state"] = "active"
    /\ "state" \in DOMAIN users[2] /\ users[2]["state"] = "RECOVERY_STARTED"
    /\ used_licenses = 1

\* C4: send_slack_notification builds the overage message (used, total,
\* used - total > 0) exactly when used > total, and otherwise the within-limit
\* message (used, total, total - used >= 0); used = total is within the limit.
C4_MessageVariant ==
    pc = "done" =>
        /\ message.used = used_licenses /\ message.total = total_licenses
        /\ (message.variant = "overage") <=> (used_licenses > total_licenses)
        /\ (message.variant = "within_limit") <=> (used_licenses <= total_licenses)
        /\ message.variant = "overage" =>
              (message.diff = used_licenses - total_licenses /\ message.diff > 0)
        /\ message.variant = "within_limit" =>
              (message.diff = total_licenses - used_licenses /\ message.diff >= 0)
        /\ Len(posts) = 1 /\ posts[1].json = [text |-> message]

C4_Witness ==
    /\ pc = "done"
    /\ used_licenses = total_licenses
    /\ message.variant = "within_limit" /\ message.diff = 0
    /\ Len(posts) = 1

\* C5: in the interactive exporter, when the path typed at the prompt is not an
\* existing file the run is aborted: the token variable is as it was, `op` is
\* never invoked and no CSV file is written.
C5_MissingTokenFileAborts ==
    Aborted =>
        /\ pc = "done"
        /\ env = start.env
        /\ opCalls = 0
        /\ fs = start.fs /\ wrotePath = <<>>

C5_Witness ==
    /\ prog = "prompt" /\ pc = "done"
    /\ token_path = << <<"x">> >>
    /\ TOKEN_VAR \in DOMAIN env /\ env[TOKEN_VAR] = <<"o">>
    /\ Last(printed) = "An error occurred: Token file not found"

\* C6: export_to_csv given the empty list writes nothing: the output file is
\* neither created nor truncated, and a file already there is left as it was.
C6_EmptyListWritesNothing ==
    (ExportEnded /\ users = <<>>) =>
        /\ Last(printed) = "No users found to export."
        /\ fs = start.fs
        /\ wrotePath = <<>>

C6_Witness ==
    /\ ExportEnded /\ users = <<>>
    /\ opOutcome = "bad_json"
    /\ Last(printed) = "No users found to export."
    /\ OUTPUT_CSV \in DOMAIN fs /\ fs[OUTPUT_CSV] = OldRows

\* C7: when the OUTPUT_CSV environment variable is set export_to_csv writes the
\* file at that path, and only when it is unset at 1password_team_users.csv.
C7_OutputPathConfigurable ==
    \A i \in 1..Len(wrotePath) :
        wrotePath[i] = (IF OUTPUT_VAR \in DOMAIN env THEN env[OUTPUT_VAR]
                        ELSE "1password_team_users.csv")

\* C8: for a non-empty list export_to_csv writes the header ID,Email,Name,State
\* and then one row per record, in the order received, each holding the
\* record's id, email, name and state with "" for a field that is missing:
\* len(users) + 1 rows.  (The case is the export that reports success; a
\* raising open() or write is the `except` branch.)
FieldOrEmpty(user, key) ==
    IF key \in DOMAIN user /\ user[key] # None THEN user[key] ELSE ""

C8_CsvRowsInOrder ==
    (ExportEnded /\ users # <<>> /\ Last(printed) = "Successfully exported users") =>
        /\ wrotePath = <<OUTPUT_CSV>>
        /\ OUTPUT_CSV \in DOMAIN fs
        /\ LET rows == fs[OUTPUT_CSV]
           IN /\ Len(rows) = Len(users) + 1
              /\ rows[1] = <<"ID", "Email", "Name", "State">>
              /\ \A i \in 1..Len(users) :
                    rows[i + 1] = << FieldOrEmpty(users[i], "id"),
                                     FieldOrEmpty(users[i], "email"),
                                     FieldOrEmpty(users[i], "name"),
                                     FieldOrEmpty(users[i], "state") >>

C8_Witness ==
    /\ ExportEnded /\ Len(users) = 2
    /\ Last(printed) = "Successfully exported users"
    /\ users[1] = [id |-> "1", email |-> "a@x.com", name |-> "A", state |-> "ACTIVE"]
    /\ DOMAIN users[2] = {"id", "name", "state"}
    /\ fs[OUTPUT_CSV] = << <<"ID", "Email", "Name", "State">>,
                           <<"1", "a@x.com", "A", "ACTIVE">>,
                           <<"1", "", "A", "SUSPENDED">> >>

\* C9: a monitor run attempts the webhook POST at most once; a failed delivery
\* (non-2xx, transport error, unset URL) is caught and printed, not retried,
\* and the run ends normally with no further external call.
C9_PostAtMostOnce ==
    prog = "monitor" =>
        /\ Len(posts) <= 1
        /\ opCalls <= 1
        /\ (posts # <<>> /\ posts[1].outcome \in PostFailures) =>
              /\ pc = "done"
              /\ Last(printed) = "Error sending Slack notification"
              /\ ~ENABLED Next

C9_Witness ==
    /\ prog = "monitor" /\ pc = "done" /\ opCalls = 1
    /\ Len(posts) = 1 /\ posts[1].outcome = "invalid_url"
    /\ Last(printed) = "Error sending Slack notification"

\* C10: the monitor attempts a POST if and only if fetch_users returned a
\* non-empty list.  With an empty list (failed fetch or no users) the run ends
\* with no count and no notification; otherwise the POST comes after the fetch
\* and the count, with used = count_active_licenses(users) and
\* total = TOTAL_LICENSES.
C10_PostIffUsers ==
    prog = "monitor" =>
        /\ pc = "done" => ((posts # <<>>) <=> (users # <<>>))
        /\ pc # "done" => posts = <<>>
        /\ (pc = "done" /\ users = <<>>) =>
              (used_licenses = Unassigned /\ message = NoMessage)
        /\ posts # <<>> =>
              /\ opCalls = 1 /\ opOutcome = "ok"
              /\ used_licenses = count_active_licenses(users)
              /\ posts[1].json.text.used = used_licenses
              /\ posts[1].json.text.total = TOTAL_LICENSES

C10_Witness ==
    /\ prog = "monitor" /\ pc = "done"
    /\ Len(users) = 2 /\ Len(posts) = 1
    /\ posts[1].json.text.used = 1
    /\ posts[1].json.text.total = TOTAL_LICENSES

=============================================================================
